---- MODULE Spec2Model ----
(***************************************************************************)
(* ssosync: one-way synchronisation of Google Workspace users, groups and  *)
(* group memberships into the AWS identity store.                          *)
(*                                                                         *)
(* The model follows internal/sync.go (DoSync, SyncUsers, SyncGroups,      *)
(* SyncMembershipsForGroup, RemoveUsers) and internal/aws/client.go, both  *)
(* held in src/template.yaml.  One step of the model is one adapter call   *)
(* (a listing or a mutation) together with the computation that follows    *)
(* it, or one loop of pure computation.  The identity store and the Google *)
(* directory are the environment: every adapter call either succeeds or    *)
(* returns an error, chosen by the environment.                            *)
(***************************************************************************)
EXTENDS Integers, Sequences, FiniteSets, TLC

\* ------------------------------------------------------------------ bounds
\* number of scheduled invocations of DoSync in one behaviour
MaxRuns == 2
\* number of adapter calls that return an error in one behaviour
MaxFailures == 1

\* ---------------------------------------------------------------- universe
UserNames == {"a", "b"}
GroupNames == {"G", "H"}
\* e-mail address of the Google group of each name
GroupEmail == [n \in GroupNames |-> IF n = "G" THEN "g@x" ELSE "h@x"]
\* identifiers the identity store gave to the entities present initially
UserIdOf == [n \in UserNames |-> IF n = "a" THEN 1 ELSE 2]
GroupIdOf == [n \in GroupNames |-> IF n = "G" THEN 3 ELSE 4]
UserOrder == <<"a", "b">>
GroupOrder == <<"G", "H">>

VARIABLES
  \* --- identity store (target)
  awsUsers,        \* sequence of [UserId, UserName]
  awsGroups,       \* sequence of [GroupId, DisplayName]
  awsMemberships,  \* sequence of [MembershipId, GroupId, MemberId]
  nextId,          \* next identifier the store assigns
  \* --- Google directory (source) and configuration: fixed in a behaviour
  gcpDeletedUsers, \* sequence of PrimaryEmail
  googleUsers,     \* sequence of [PrimaryEmail, Suspended]
  googleGroups,    \* sequence of [Name, Email]
  googleMembers,   \* group Email -> set of member Email
  cfg,             \* [IgnoreUsers, IgnoreGroups]
  \* --- DoSync
  pc,              \* position of the run
  run,             \* number of the current run, from 1
  err,             \* "none", "error" or "panic": how the current run stands
  \* --- UserSyncResult
  index,           \* UserName -> user
  indexByUserId,   \* UserId -> user
  toDelete,        \* sequence of users
  i,               \* position in googleUsers / googleGroups
  \* --- SyncGroups
  awsGroupsList,   \* the listing taken at the start of SyncGroups
  groupsIndex,     \* DisplayName -> group
  googleGroupsIndex, \* Name -> Google group
  groupsToDelete,  \* sequence of groups
  pending,         \* keys of groupsIndex not yet ranged over
  \* --- SyncMembershipsForGroup
  awsGroup,        \* the group being reconciled
  awsMembers,      \* the listing of its memberships
  memberList,      \* Email -> user, the members still to add
  mToDelete,       \* sequence of memberships to remove
  \* --- observation
  calls,           \* every adapter call issued so far, in order
  fails,           \* number of adapter calls that returned an error
  snap,            \* the store as it was when the current run started
  ended            \* outcome of every finished run, in order

vars == <<awsUsers, awsGroups, awsMemberships, nextId, gcpDeletedUsers,
          googleUsers, googleGroups, googleMembers, cfg, pc, run, err, index,
          indexByUserId, toDelete, i, awsGroupsList, groupsIndex,
          googleGroupsIndex, groupsToDelete, pending, awsGroup, awsMembers,
          memberList, mToDelete, calls, fails, snap, ended>>

source == <<gcpDeletedUsers, googleUsers, googleGroups, googleMembers, cfg>>
store == <<awsUsers, awsGroups, awsMemberships, nextId>>
userSync == <<index, indexByUserId, toDelete>>
groupSync == <<awsGroupsList, groupsIndex, googleGroupsIndex, groupsToDelete,
               pending>>
memberSync == <<awsGroup, awsMembers, memberList, mToDelete>>

\* ------------------------------------------------------------------- maps
EmptyMap == <<>>
Put(m, k, v) == [x \in (DOMAIN m) \cup {k} |-> IF x = k THEN v ELSE m[x]]
Del(m, k) == [x \in (DOMAIN m) \ {k} |-> m[x]]

RECURSIVE SeqFilter(_, _)
\* the elements of s that are in the set keep, in order
SeqFilter(s, keep) ==
  IF s = <<>> THEN <<>>
  ELSE IF Head(s) \in keep THEN <<Head(s)>> \o SeqFilter(Tail(s), keep)
       ELSE SeqFilter(Tail(s), keep)

Range(s) == {s[k] : k \in DOMAIN s}

NoGroup == [GroupId |-> 0, DisplayName |-> ""]
MemberUserId(v) == [kind |-> "user", Value |-> v]
MemberOther == [kind |-> "other", Value |-> 0]

\* --------------------------------------------------------- the call record
Call(op, name, id, gid, ok) ==
  [op |-> op, run |-> run, name |-> name, id |-> id, gid |-> gid, ok |-> ok]

\* the outcomes the environment may give to an adapter call
Outcomes == IF fails < MaxFailures THEN {TRUE, FALSE} ELSE {TRUE}
Count(ok) == IF ok THEN fails ELSE fails + 1

Mutations == {"CreateUser", "DeleteUser", "CreateGroup", "DeleteGroup",
              "AddUserToGroup", "RemoveGroupMembership"}

\* ------------------------------------------------------- the identity store
\* client.CreateUser: the store assigns the UserId
StoreCreateUser(name) == [UserId |-> nextId, UserName |-> name]
\* client.CreateGroup: the store assigns the GroupId
StoreCreateGroup(name) == [GroupId |-> nextId, DisplayName |-> name]
\* client.AddUserToGroup: the store assigns the MembershipId
StoreAddUserToGroup(u, g) ==
  [MembershipId |-> nextId, GroupId |-> g.GroupId,
   MemberId |-> MemberUserId(u.UserId)]

RECURSIVE Without(_, _)
\* the sequence s without the elements of the set gone
Without(s, gone) ==
  IF s = <<>> THEN <<>>
  ELSE IF Head(s) \in gone THEN Without(Tail(s), gone)
       ELSE <<Head(s)>> \o Without(Tail(s), gone)

\* client.DeleteUser: the user of that UserId leaves the store, with the
\* memberships that refer to it.  For a UserId the store no longer holds
\* nothing changes; whether that call returns an error is, as for every
\* call, the choice of the environment.
StoreDeleteUser(u) ==
  /\ awsUsers' = Without(awsUsers, {x \in Range(awsUsers) : x.UserId = u.UserId})
  /\ awsMemberships' =
       Without(awsMemberships,
               {m \in Range(awsMemberships) :
                  m.MemberId = MemberUserId(u.UserId)})
  /\ UNCHANGED <<awsGroups, nextId>>

\* client.DeleteGroup: the group of that GroupId leaves the store, with its
\* memberships
StoreDeleteGroup(g) ==
  /\ awsGroups' = Without(awsGroups, {x \in Range(awsGroups) : x.GroupId = g.GroupId})
  /\ awsMemberships' =
       Without(awsMemberships,
               {m \in Range(awsMemberships) : m.GroupId = g.GroupId})
  /\ UNCHANGED <<awsUsers, nextId>>

\* client.RemoveGroupMembership: by MembershipId
StoreRemoveGroupMembership(m) ==
  /\ awsMemberships' =
       Without(awsMemberships,
               {x \in Range(awsMemberships) : x.MembershipId = m.MembershipId})
  /\ UNCHANGED <<awsUsers, awsGroups, nextId>>

\* client.GetGroupMembers: the memberships of the group, in the store's order
StoreGroupMembers(g) ==
  SeqFilter(awsMemberships,
            {m \in Range(awsMemberships) : m.GroupId = g.GroupId})

\* ------------------------------------------------------------ the run ends
\* (mutant) the error of a listing is logged and DoSync goes on
Failed_GoesOn ==
  /\ err' = "none"
  /\ pc' = "GetGroups"

\* SyncUsers returned an error: DoSync returns it
Failed ==
  /\ err' = "error"
  /\ pc' = "Return"

\* (mutant) the error of one group is isolated: the loop over groupsIndex
\* goes on with the next group
SyncGroupsFailed_Isolated ==
  /\ err' = "error"
  /\ pc' = IF pending # {} THEN "Members"
           ELSE IF groupsToDelete # <<>> THEN "DeleteGroups"
           ELSE "Return"

\* (mutant) DoSync goes on to RemoveUsers after an error of SyncGroups
SyncGroupsFailed_GoesOn ==
  /\ err' = "error"
  /\ pc' = IF toDelete = <<>> THEN "Return" ELSE "RemoveUsers"

\* SyncGroups returned an error: DoSync returns it
SyncGroupsFailed ==
  /\ err' = "error"
  /\ pc' = "Return"

\* RemoveUsers returned an error: DoSync returns it
RemoveUsersFailed ==
  /\ err' = "error"
  /\ pc' = "Return"

\* a nil pointer is dereferenced: the process stops
Panicked ==
  /\ err' = "panic"
  /\ pc' = "Return"

\* --------------------------------------------------------------- SyncUsers
ignoreUser(name) == name \in cfg.IgnoreUsers
ignoreGroup(name) == name \in cfg.IgnoreGroups

RECURSIVE IndexUsers(_, _)
\* the loop over awsUsers that fills index
IndexUsers(us, m) ==
  IF us = <<>> THEN m
  ELSE IndexUsers(Tail(us), Put(m, Head(us).UserName, Head(us)))

RECURSIVE IndexUsersById(_, _)
\* the loop over awsUsers that fills indexByUserId
IndexUsersById(us, m) ==
  IF us = <<>> THEN m
  ELSE IndexUsersById(Tail(us), Put(m, Head(us).UserId, Head(us)))

\* whether the tombstone of that e-mail selects a user for deletion
TombstoneSelects(email, idx) == email \in DOMAIN idx

RECURSIVE MarkDeleted(_, _, _)
\* the loop over gcpDeletedUsers
MarkDeleted(tombs, idx, acc) ==
  IF tombs = <<>> THEN acc
  ELSE MarkDeleted(Tail(tombs), idx,
                   IF TombstoneSelects(Head(tombs), idx)
                   THEN Append(acc, idx[Head(tombs)]) ELSE acc)

\* (mutant) a Google user the store holds is put in toDelete, suspended or not
UserAction_DeletesActive(u, idx) ==
  IF ignoreUser(u.PrimaryEmail) THEN "skip"
  ELSE IF u.PrimaryEmail \in DOMAIN idx THEN "delete"
       ELSE (IF u.Suspended THEN "skip" ELSE "create")

\* (mutant) the loop creates a suspended user the store does not hold
UserAction_CreatesSuspended(u, idx) ==
  IF ignoreUser(u.PrimaryEmail) THEN "skip"
  ELSE IF u.PrimaryEmail \in DOMAIN idx
       THEN (IF u.Suspended THEN "delete" ELSE "skip")
       ELSE "create"

\* what the loop over googleUsers does with one Google user
UserAction(u, idx) ==
  IF ignoreUser(u.PrimaryEmail) THEN "skip"
  ELSE IF u.PrimaryEmail \in DOMAIN idx
       THEN (IF u.Suspended THEN "delete" ELSE "skip")
       ELSE (IF u.Suspended THEN "skip" ELSE "create")

\* (mutant) the created user is entered in the index by name only
AddToIndex_ByNameOnly(idx, byId, email, added) ==
  [index |-> Put(idx, email, added), indexByUserId |-> byId]

\* the two indexes after a CreateUser that succeeded
AddToIndex(idx, byId, email, added) ==
  [index |-> Put(idx, email, added),
   indexByUserId |-> Put(byId, added.UserId, added)]

\* where DoSync stands when the loop over googleUsers is at position k
UsersLoopPc(k) == IF k > Len(googleUsers) THEN "GetGroups" ELSE "UsersLoop"

\* the loop over googleUsers goes on to position k
UsersLoopGoesOn(k) ==
  /\ pc' = UsersLoopPc(k)
  /\ UNCHANGED err

\* (mutant) SyncUsers returns the error of CreateUser
CreateUserFailed_Returns(k) ==
  /\ err' = "error"
  /\ pc' = "Return"

\* CreateUser returned an error: it is logged and the loop goes on
CreateUserFailed(k) ==
  /\ pc' = UsersLoopPc(k)
  /\ UNCHANGED err

\* s.aws.GetUsers() and the loop that fills the two indexes
GetAwsUsers ==
  /\ pc = "GetUsers"
  /\ \E ok \in Outcomes :
       /\ calls' = Append(calls, Call("GetUsers", "", 0, 0, ok))
       /\ fails' = Count(ok)
       /\ IF ok
          THEN /\ index' = IndexUsers(awsUsers, EmptyMap)
               /\ indexByUserId' = IndexUsersById(awsUsers, EmptyMap)
               /\ pc' = "GetDeletedUsers"
               /\ UNCHANGED err
          ELSE /\ Failed
               /\ UNCHANGED <<index, indexByUserId>>
  /\ UNCHANGED <<store, source, run, toDelete, i, groupSync, memberSync, snap,
                 ended>>

\* s.google.GetDeletedUsers() and the loop over the tombstones
GetDeletedUsers ==
  /\ pc = "GetDeletedUsers"
  /\ \E ok \in Outcomes :
       /\ calls' = Append(calls, Call("GetDeletedUsers", "", 0, 0, ok))
       /\ fails' = Count(ok)
       /\ IF ok
          THEN /\ toDelete' = MarkDeleted(gcpDeletedUsers, index, toDelete)
               /\ pc' = "GetGoogleUsers"
               /\ UNCHANGED err
          ELSE /\ Failed
               /\ UNCHANGED toDelete
  /\ UNCHANGED <<store, source, run, index, indexByUserId, i, groupSync,
                 memberSync, snap, ended>>

\* s.google.GetUsers(query)
GetGoogleUsers ==
  /\ pc = "GetGoogleUsers"
  /\ \E ok \in Outcomes :
       /\ calls' = Append(calls, Call("GetGoogleUsers", "", 0, 0, ok))
       /\ fails' = Count(ok)
       /\ IF ok
          THEN /\ i' = 1
               /\ pc' = UsersLoopPc(1)
               /\ UNCHANGED err
          ELSE /\ Failed
               /\ UNCHANGED i
  /\ UNCHANGED <<store, source, run, userSync, groupSync, memberSync, snap,
                 ended>>

\* one iteration of the loop over googleUsers
SyncUser ==
  /\ pc = "UsersLoop"
  /\ LET u == googleUsers[i]
         act == UserAction(u, index)
     IN  \/ /\ act = "skip"
            /\ UsersLoopGoesOn(i + 1)
            /\ UNCHANGED <<store, userSync, calls, fails>>
         \/ /\ act = "delete"
            /\ toDelete' = Append(toDelete, index[u.PrimaryEmail])
            /\ UsersLoopGoesOn(i + 1)
            /\ UNCHANGED <<store, index, indexByUserId, calls, fails>>
         \/ /\ act = "create"
            /\ \E ok \in Outcomes :
                 /\ calls' = Append(calls,
                                    Call("CreateUser", u.PrimaryEmail,
                                         IF ok THEN nextId ELSE 0, 0, ok))
                 /\ fails' = Count(ok)
                 /\ IF ok
                    THEN LET added == StoreCreateUser(u.PrimaryEmail)
                             both == AddToIndex(index, indexByUserId,
                                                u.PrimaryEmail, added)
                         IN  /\ awsUsers' = Append(awsUsers, added)
                             /\ nextId' = nextId + 1
                             /\ index' = both.index
                             /\ indexByUserId' = both.indexByUserId
                             /\ UsersLoopGoesOn(i + 1)
                             /\ UNCHANGED <<awsGroups, awsMemberships>>
                    ELSE /\ CreateUserFailed(i + 1)
                         /\ UNCHANGED <<store, index, indexByUserId>>
            /\ UNCHANGED toDelete
  /\ i' = i + 1
  /\ UNCHANGED <<source, run, groupSync, memberSync, snap, ended>>

\* -------------------------------------------------------------- SyncGroups
RECURSIVE IndexGroups(_, _)
\* the loop over awsGroups that fills groupsIndex
IndexGroups(gs, m) ==
  IF gs = <<>> THEN m
  ELSE IndexGroups(Tail(gs), Put(m, Head(gs).DisplayName, Head(gs)))

\* what the loop over googleGroups does with one Google group
GroupAction(g, gidx) ==
  IF ignoreGroup(g.Email) THEN "skip"
  ELSE IF g.Name \in DOMAIN gidx THEN "index" ELSE "create"

\* (mutant) the test of the second loop over awsGroups is inverted
GroupSelected_Inverted(g, ggidx) == g.DisplayName \in DOMAIN ggidx

\* whether the second loop over awsGroups selects a group for deletion
GroupSelected(g, ggidx) == g.DisplayName \notin DOMAIN ggidx

RECURSIVE MarkGroupsToDelete_KeepsIndex(_, _, _, _)
\* (mutant) a group selected for deletion stays in groupsIndex
MarkGroupsToDelete_KeepsIndex(gs, ggidx, acc, gidx) ==
  IF gs = <<>> THEN [groupsToDelete |-> acc, groupsIndex |-> gidx]
  ELSE IF GroupSelected(Head(gs), ggidx)
       THEN MarkGroupsToDelete_KeepsIndex(Tail(gs), ggidx,
                                          Append(acc, Head(gs)), gidx)
       ELSE MarkGroupsToDelete_KeepsIndex(Tail(gs), ggidx, acc, gidx)

RECURSIVE MarkGroupsToDelete(_, _, _, _)
\* the second loop over awsGroups: [groupsToDelete, groupsIndex]
MarkGroupsToDelete(gs, ggidx, acc, gidx) ==
  IF gs = <<>> THEN [groupsToDelete |-> acc, groupsIndex |-> gidx]
  ELSE IF GroupSelected(Head(gs), ggidx)
       THEN MarkGroupsToDelete(Tail(gs), ggidx, Append(acc, Head(gs)),
                               Del(gidx, Head(gs).DisplayName))
       ELSE MarkGroupsToDelete(Tail(gs), ggidx, acc, gidx)

\* where DoSync stands when RemoveUsers is given td
RemoveUsersPc(td) == IF td = <<>> THEN "Return" ELSE "RemoveUsers"
\* ... when the loop over groupsToDelete is left with gtd
DeleteGroupsPc(gtd) ==
  IF gtd = <<>> THEN RemoveUsersPc(toDelete) ELSE "DeleteGroups"
\* ... when the loop over groupsIndex is left with the keys pend
MembersPc(pend, gtd) == IF pend = {} THEN DeleteGroupsPc(gtd) ELSE "Members"
\* ... when the loop over googleGroups is at position k
GroupsLoopPc(k) == IF k > Len(googleGroups) THEN "MarkGroups" ELSE "GroupsLoop"

\* the loop over googleGroups goes on to position k
GroupsLoopGoesOn(k) ==
  /\ pc' = GroupsLoopPc(k)
  /\ UNCHANGED err

\* (mutant) SyncGroups returns the error of CreateGroup
CreateGroupFailed_Returns(k) ==
  /\ err' = "error"
  /\ pc' = "Return"

\* CreateGroup returned an error: it is logged and the loop goes on
CreateGroupFailed(k) ==
  /\ pc' = GroupsLoopPc(k)
  /\ UNCHANGED err

\* s.aws.GetGroups() and the loop that fills groupsIndex
GetAwsGroups ==
  /\ pc = "GetGroups"
  /\ \E ok \in Outcomes :
       /\ calls' = Append(calls, Call("GetGroups", "", 0, 0, ok))
       /\ fails' = Count(ok)
       /\ IF ok
          THEN /\ awsGroupsList' = awsGroups
               /\ groupsIndex' = IndexGroups(awsGroups, EmptyMap)
               /\ pc' = "GetGoogleGroups"
               /\ UNCHANGED err
          ELSE /\ SyncGroupsFailed
               /\ UNCHANGED <<awsGroupsList, groupsIndex>>
  /\ UNCHANGED <<store, source, run, userSync, i, googleGroupsIndex,
                 groupsToDelete, pending, memberSync, snap, ended>>

\* s.google.GetGroups(query)
GetGoogleGroups ==
  /\ pc = "GetGoogleGroups"
  /\ \E ok \in Outcomes :
       /\ calls' = Append(calls, Call("GetGoogleGroups", "", 0, 0, ok))
       /\ fails' = Count(ok)
       /\ IF ok
          THEN /\ i' = 1
               /\ pc' = GroupsLoopPc(1)
               /\ UNCHANGED err
          ELSE /\ SyncGroupsFailed
               /\ UNCHANGED i
  /\ UNCHANGED <<store, source, run, userSync, groupSync, memberSync, snap,
                 ended>>

\* one iteration of the loop over googleGroups
SyncGroup ==
  /\ pc = "GroupsLoop"
  /\ LET g == googleGroups[i]
         act == GroupAction(g, groupsIndex)
     IN  \/ /\ act = "skip"
            /\ GroupsLoopGoesOn(i + 1)
            /\ UNCHANGED <<store, groupsIndex, googleGroupsIndex, calls, fails>>
         \/ /\ act = "index"
            /\ googleGroupsIndex' = Put(googleGroupsIndex, g.Name, g)
            /\ GroupsLoopGoesOn(i + 1)
            /\ UNCHANGED <<store, groupsIndex, calls, fails>>
         \/ /\ act = "create"
            /\ googleGroupsIndex' = Put(googleGroupsIndex, g.Name, g)
            /\ \E ok \in Outcomes :
                 /\ calls' = Append(calls,
                                    Call("CreateGroup", g.Name,
                                         IF ok THEN nextId ELSE 0, 0, ok))
                 /\ fails' = Count(ok)
                 /\ IF ok
                    THEN LET gg == StoreCreateGroup(g.Name)
                         IN  /\ awsGroups' = Append(awsGroups, gg)
                             /\ nextId' = nextId + 1
                             /\ groupsIndex' = Put(groupsIndex, gg.DisplayName, gg)
                             /\ GroupsLoopGoesOn(i + 1)
                             /\ UNCHANGED <<awsUsers, awsMemberships>>
                    ELSE /\ CreateGroupFailed(i + 1)
                         /\ UNCHANGED <<store, groupsIndex>>
  /\ i' = i + 1
  /\ UNCHANGED <<source, run, userSync, awsGroupsList, groupsToDelete,
                 pending, memberSync, snap, ended>>

\* the second loop over awsGroups, which fills groupsToDelete
MarkGroups ==
  /\ pc = "MarkGroups"
  /\ LET r == MarkGroupsToDelete(awsGroupsList, googleGroupsIndex, <<>>,
                                 groupsIndex)
     IN  /\ groupsToDelete' = r.groupsToDelete
         /\ groupsIndex' = r.groupsIndex
         /\ pending' = DOMAIN r.groupsIndex
         /\ pc' = MembersPc(DOMAIN r.groupsIndex, r.groupsToDelete)
  /\ UNCHANGED <<store, source, run, err, userSync, i, awsGroupsList,
                 googleGroupsIndex, memberSync, calls, fails, snap, ended>>

\* one iteration of the loop over groupsToDelete
DeleteGroup ==
  /\ pc = "DeleteGroups"
  /\ LET g == Head(groupsToDelete)
     IN  \E ok \in Outcomes :
           /\ calls' = Append(calls,
                              Call("DeleteGroup", g.DisplayName, g.GroupId,
                                   g.GroupId, ok))
           /\ fails' = Count(ok)
           /\ IF ok
              THEN /\ StoreDeleteGroup(g)
                   /\ groupsToDelete' = Tail(groupsToDelete)
                   /\ pc' = DeleteGroupsPc(Tail(groupsToDelete))
                   /\ UNCHANGED err
              ELSE /\ SyncGroupsFailed
                   /\ UNCHANGED <<store, groupsToDelete>>
  /\ UNCHANGED <<source, run, userSync, i, awsGroupsList, groupsIndex,
                 googleGroupsIndex, pending, memberSync, snap, ended>>

\* ------------------------------------------------- SyncMembershipsForGroup
\* (mutant) the users of toDelete are left out of the desired members
DesiredMembers_NotPending(emails, idx) ==
  [e \in (emails \cap DOMAIN idx) \ {u.UserName : u \in Range(toDelete)}
     |-> idx[e]]

\* the loop over groupMembers: the Google members the index resolves
DesiredMembers(emails, idx) ==
  [e \in emails \cap DOMAIN idx |-> idx[e]]

\* (mutant) has is read after delete(memberList, ...): it is always false
MarkStale_ReadsAfterDelete(del, m, has) == Append(del, m)

\* (mutant) a membership of a user who is no Google member is kept
MarkStale_Never(del, m, has) == del

\* toDelete after a membership of a user the index resolves
MarkStale(del, m, has) == IF has THEN del ELSE Append(del, m)

\* toDelete after a membership whose user id the index does not resolve
MarkUnresolved(del, m) == Append(del, m)

\* (mutant) a user who holds a membership stays in memberList
Confirm_Keeps(list, name) == list

\* memberList after a membership of the user of that name
Confirm(list, name) == Del(list, name)

RECURSIVE DiffMembers(_, _, _, _)
\* the loop over awsMembers: [toDelete, memberList, panic]
DiffMembers(ms, list, del, byId) ==
  IF ms = <<>> THEN [toDelete |-> del, memberList |-> list, panic |-> FALSE]
  ELSE LET m == Head(ms)
       IN  IF m.MemberId.kind # "user"
           THEN \* userId is nil and userId.Value is read
                [toDelete |-> del, memberList |-> list, panic |-> TRUE]
           ELSE IF m.MemberId.Value \notin DOMAIN byId
           THEN DiffMembers(Tail(ms), list, MarkUnresolved(del, m), byId)
           ELSE LET name == byId[m.MemberId.Value].UserName
                IN  DiffMembers(Tail(ms), Confirm(list, name),
                                MarkStale(del, m, name \in DOMAIN list), byId)

\* where DoSync stands in SyncMembershipsForGroup, given what is left to do
MembershipPc(del, list, pend) ==
  IF del # <<>> THEN "RemoveMemberships"
  ELSE IF DOMAIN list # {} THEN "AddMembers"
  ELSE MembersPc(pend, groupsToDelete)

\* one iteration of the loop over groupsIndex, up to s.google.GetGroupMembers
GetGoogleMembers ==
  /\ pc = "Members"
  /\ \E name \in pending :
       /\ awsGroup' = groupsIndex[name]
       /\ pending' = pending \ {name}
       /\ IF name \notin DOMAIN googleGroupsIndex
          THEN \* googleGroup is nil and googleGroup.Name is read
               /\ Panicked
               /\ UNCHANGED <<memberList, calls, fails>>
          ELSE LET googleGroup == googleGroupsIndex[name]
               IN  \E ok \in Outcomes :
                     /\ calls' = Append(calls,
                                        Call("GetGoogleMembers", name, 0,
                                             groupsIndex[name].GroupId, ok))
                     /\ fails' = Count(ok)
                     /\ IF ok
                        THEN /\ memberList' =
                                  DesiredMembers(googleMembers[googleGroup.Email],
                                                 index)
                             /\ pc' = "GetAwsMembers"
                             /\ UNCHANGED err
                        ELSE /\ SyncGroupsFailed
                             /\ UNCHANGED memberList
  /\ UNCHANGED <<store, source, run, userSync, i, awsGroupsList, groupsIndex,
                 googleGroupsIndex, groupsToDelete, awsMembers, mToDelete,
                 snap, ended>>

\* s.aws.GetGroupMembers(awsGroup) and the loop over awsMembers
GetAwsMembers ==
  /\ pc = "GetAwsMembers"
  /\ \E ok \in Outcomes :
       /\ calls' = Append(calls,
                          Call("GetGroupMembers", awsGroup.DisplayName, 0,
                               awsGroup.GroupId, ok))
       /\ fails' = Count(ok)
       /\ IF ok
          THEN LET ms == StoreGroupMembers(awsGroup)
                   d == DiffMembers(ms, memberList, <<>>, indexByUserId)
               IN  /\ awsMembers' = ms
                   /\ IF d.panic
                      THEN /\ Panicked
                           /\ UNCHANGED <<memberList, mToDelete>>
                      ELSE /\ memberList' = d.memberList
                           /\ mToDelete' = d.toDelete
                           /\ pc' = MembershipPc(d.toDelete, d.memberList,
                                                 pending)
                           /\ UNCHANGED err
          ELSE /\ SyncGroupsFailed
               /\ UNCHANGED <<awsMembers, memberList, mToDelete>>
  /\ UNCHANGED <<store, source, run, userSync, i, groupSync, awsGroup, snap,
                 ended>>

\* one iteration of the loop over toDelete
RemoveMembership ==
  /\ pc = "RemoveMemberships"
  /\ LET m == Head(mToDelete)
     IN  \E ok \in Outcomes :
           /\ calls' = Append(calls,
                              Call("RemoveGroupMembership", "", m.MembershipId,
                                   m.GroupId, ok))
           /\ fails' = Count(ok)
           /\ IF ok
              THEN /\ StoreRemoveGroupMembership(m)
                   /\ mToDelete' = Tail(mToDelete)
                   /\ pc' = MembershipPc(Tail(mToDelete), memberList, pending)
                   /\ UNCHANGED err
              ELSE /\ SyncGroupsFailed
                   /\ UNCHANGED <<store, mToDelete>>
  /\ UNCHANGED <<source, run, userSync, i, groupSync, awsGroup, awsMembers,
                 memberList, snap, ended>>

\* one iteration of the loop over memberList
AddMember ==
  /\ pc = "AddMembers"
  /\ \E e \in DOMAIN memberList :
       LET element == memberList[e]
       IN  \E ok \in Outcomes :
             /\ calls' = Append(calls,
                                Call("AddUserToGroup", element.UserName,
                                     element.UserId, awsGroup.GroupId, ok))
             /\ fails' = Count(ok)
             /\ IF ok
                THEN /\ awsMemberships' =
                          Append(awsMemberships,
                                 StoreAddUserToGroup(element, awsGroup))
                     /\ nextId' = nextId + 1
                     /\ memberList' = Del(memberList, e)
                     /\ pc' = MembershipPc(<<>>, Del(memberList, e), pending)
                     /\ UNCHANGED <<awsUsers, awsGroups, err>>
                ELSE /\ SyncGroupsFailed
                     /\ UNCHANGED <<store, memberList>>
  /\ UNCHANGED <<source, run, userSync, i, groupSync, awsGroup, awsMembers,
                 mToDelete, snap, ended>>

\* ------------------------------------------------------------- RemoveUsers
\* one iteration of the loop over usersList
DeleteUser ==
  /\ pc = "RemoveUsers"
  /\ LET u == Head(toDelete)
     IN  \E ok \in Outcomes :
           /\ calls' = Append(calls,
                              Call("DeleteUser", u.UserName, u.UserId, 0, ok))
           /\ fails' = Count(ok)
           /\ IF ok
              THEN /\ StoreDeleteUser(u)
                   /\ toDelete' = Tail(toDelete)
                   /\ pc' = RemoveUsersPc(Tail(toDelete))
                   /\ UNCHANGED err
              ELSE /\ RemoveUsersFailed
                   /\ UNCHANGED <<store, toDelete>>
  /\ UNCHANGED <<source, run, index, indexByUserId, i, groupSync, memberSync,
                 snap, ended>>

\* ------------------------------------------------------------------ DoSync
\* DoSync returns (or the process stops on a panic)
Return ==
  /\ pc = "Return"
  /\ pc' = "done"
  /\ ended' = Append(ended, err)
  /\ UNCHANGED <<store, source, run, err, userSync, i, groupSync, memberSync,
                 calls, fails, snap>>

\* the schedule invokes DoSync again: nothing is kept from the run before
NextRun ==
  /\ pc = "done"
  /\ run < MaxRuns
  /\ run' = run + 1
  /\ pc' = "GetUsers"
  /\ err' = "none"
  /\ index' = EmptyMap
  /\ indexByUserId' = EmptyMap
  /\ toDelete' = <<>>
  /\ i' = 0
  /\ awsGroupsList' = <<>>
  /\ groupsIndex' = EmptyMap
  /\ googleGroupsIndex' = EmptyMap
  /\ groupsToDelete' = <<>>
  /\ pending' = {}
  /\ awsGroup' = NoGroup
  /\ awsMembers' = <<>>
  /\ memberList' = EmptyMap
  /\ mToDelete' = <<>>
  /\ snap' = [users |-> awsUsers, groups |-> awsGroups,
              memberships |-> awsMemberships]
  /\ UNCHANGED <<store, source, calls, fails, ended>>

Next ==
  \/ GetAwsUsers
  \/ GetDeletedUsers
  \/ GetGoogleUsers
  \/ SyncUser
  \/ GetAwsGroups
  \/ GetGoogleGroups
  \/ SyncGroup
  \/ MarkGroups
  \/ GetGoogleMembers
  \/ GetAwsMembers
  \/ RemoveMembership
  \/ AddMember
  \/ DeleteGroup
  \/ DeleteUser
  \/ Return
  \/ NextRun

\* -------------------------------------------------------------------- Init
\* The initial states: a store, a Google directory and a configuration.
\* User names are unique in the store and in the active Google listing, group
\* names are unique in the store, and the store holds at most one membership
\* for a pair of a group and a member.
Statuses == {"absent", "active", "suspended"}

\* the memberships the store may hold initially, in the store's order
InitialMemberships ==
  << [MembershipId |-> 11, g |-> "G", m |-> "a"],
     [MembershipId |-> 12, g |-> "G", m |-> "b"],
     [MembershipId |-> 13, g |-> "G", m |-> "ghost"],
     [MembershipId |-> 14, g |-> "G", m |-> "other"],
     [MembershipId |-> 15, g |-> "H", m |-> "a"],
     [MembershipId |-> 16, g |-> "H", m |-> "b"] >>

MemberIdOf(m) ==
  IF m \in UserNames THEN MemberUserId(UserIdOf[m])
  ELSE IF m = "ghost" THEN MemberUserId(9)
  ELSE MemberOther

\* configurations that vary the users, around one group with two Google
\* members and no membership
UserConfigs ==
  [tu : SUBSET UserNames, tomb : {{}, {"a"}, {"a", "b"}},
   st : [UserNames -> Statuses], ignU : {{}, {"a"}},
   tg : {{"G"}}, sg : {{"G"}}, ignG : {{}},
   smem : {[n \in GroupNames |-> IF n = "G" THEN {"a", "b"} ELSE {}]},
   tm : {{}}]

\* configurations that vary the groups, around one user present on both
\* sides, who is a member of every store group, and one user to create
GroupConfigs ==
  [tu : {{"a"}}, tomb : {{}, {"a"}},
   st : {[n \in UserNames |-> "active"]}, ignU : {{}},
   tg : SUBSET GroupNames, sg : SUBSET GroupNames,
   ignG : {{}, {GroupEmail["G"]}},
   smem : {[n \in GroupNames |-> IF n = "G" THEN g ELSE {"b"}] :
             g \in {{}, {"a", "b"}}},
   tm : {{"a"}}]

\* configurations that vary the memberships of one group
MemberConfigs ==
  [tu : {UserNames}, tomb : {{}, {"a"}},
   st : {[n \in UserNames |-> "active"],
         [n \in UserNames |-> IF n = "a" THEN "active" ELSE "suspended"]},
   ignU : {{}}, tg : {{"G"}}, sg : {{"G"}}, ignG : {{}},
   smem : {[n \in GroupNames |-> IF n = "G" THEN g ELSE {}] :
             g \in SUBSET UserNames},
   tm : SUBSET {"a", "b", "ghost", "other"}]

Configs == UserConfigs \cup GroupConfigs \cup MemberConfigs

InitUsers(c) ==
  LET ns == SeqFilter(UserOrder, c.tu)
  IN  [k \in DOMAIN ns |-> [UserId |-> UserIdOf[ns[k]], UserName |-> ns[k]]]

InitGroups(c) ==
  LET ns == SeqFilter(GroupOrder, c.tg)
  IN  [k \in DOMAIN ns |-> [GroupId |-> GroupIdOf[ns[k]], DisplayName |-> ns[k]]]

InitMemberships(c) ==
  LET ms == SeqFilter(InitialMemberships,
                      {x \in Range(InitialMemberships) :
                         /\ x.g \in c.tg
                         /\ x.m \in c.tm
                         /\ x.m \in UserNames => x.m \in c.tu})
  IN  [k \in DOMAIN ms |->
         [MembershipId |-> ms[k].MembershipId, GroupId |-> GroupIdOf[ms[k].g],
          MemberId |-> MemberIdOf(ms[k].m)]]

InitGoogleUsers(c) ==
  LET ns == SeqFilter(UserOrder, {n \in UserNames : c.st[n] # "absent"})
  IN  [k \in DOMAIN ns |->
         [PrimaryEmail |-> ns[k], Suspended |-> c.st[ns[k]] = "suspended"]]

InitGoogleGroups(c) ==
  LET ns == SeqFilter(GroupOrder, c.sg)
  IN  [k \in DOMAIN ns |-> [Name |-> ns[k], Email |-> GroupEmail[ns[k]]]]

Init ==
  \E c \in Configs :
    /\ awsUsers = InitUsers(c)
    /\ awsGroups = InitGroups(c)
    /\ awsMemberships = InitMemberships(c)
    /\ nextId = 20
    /\ gcpDeletedUsers = SeqFilter(UserOrder, c.tomb)
    /\ googleUsers = InitGoogleUsers(c)
    /\ googleGroups = InitGoogleGroups(c)
    /\ googleMembers = [e \in {GroupEmail[n] : n \in GroupNames} |->
                          c.smem[CHOOSE n \in GroupNames : GroupEmail[n] = e]]
    /\ cfg = [IgnoreUsers |-> c.ignU, IgnoreGroups |-> c.ignG]
    /\ pc = "GetUsers"
    /\ run = 1
    /\ err = "none"
    /\ index = EmptyMap
    /\ indexByUserId = EmptyMap
    /\ toDelete = <<>>
    /\ i = 0
    /\ awsGroupsList = <<>>
    /\ groupsIndex = EmptyMap
    /\ googleGroupsIndex = EmptyMap
    /\ groupsToDelete = <<>>
    /\ pending = {}
    /\ awsGroup = NoGroup
    /\ awsMembers = <<>>
    /\ memberList = EmptyMap
    /\ mToDelete = <<>>
    /\ calls = <<>>
    /\ fails = 0
    /\ snap = [users |-> InitUsers(c), groups |-> InitGroups(c),
               memberships |-> InitMemberships(c)]
    /\ ended = <<>>

Spec == Init /\ [][Next]_vars

\* ================================================================== claims
\* the positions in calls of the calls of run r whose operation is in ops
Issued(r, ops) == {k \in DOMAIN calls : calls[k].run = r /\ calls[k].op \in ops}
\* ... and that concern the group of identifier gid
IssuedFor(r, gid, ops) == {k \in Issued(r, ops) : calls[k].gid = gid}
\* run r issued no adapter call that returned an error
Clean(r) == \A k \in DOMAIN calls : calls[k].run = r => calls[k].ok
\* the user names / group names the store holds
StoreUserNames == {u.UserName : u \in Range(awsUsers)}
StoreGroupNames == {g.DisplayName : g \in Range(awsGroups)}
\* the user names the store held when the current run started
SnapUserNames == {u.UserName : u \in Range(snap.users)}
\* the current run has returned without error
ReturnedOk == pc = "done" /\ err = "none"

\* C1 (as stated): a run that follows a run which completed, with no adapter
\* error, against the same source and the store the first run left, issues no
\* mutation at all.
C1_SecondRunIssuesNothing ==
  \A r \in 2..run :
    (ended[r - 1] = "none" /\ Clean(r - 1)) => Issued(r, Mutations) = {}

\* C2 (as stated, and read with the same exception for a group whose
\* CreateGroup failed): after a run that returned without error, every Google
\* user of the active listing who is not ignored, not suspended and whose
\* CreateUser did not fail in the run has a user of that name in the store,
\* and every Google group that is not ignored has a group of that name.
C2_Convergence ==
  ReturnedOk =>
    /\ \A k \in DOMAIN googleUsers :
         LET u == googleUsers[k]
         IN  (/\ ~ignoreUser(u.PrimaryEmail)
              /\ ~u.Suspended
              /\ ~\E c \in Issued(run, {"CreateUser"}) :
                    calls[c].name = u.PrimaryEmail /\ ~calls[c].ok)
             => u.PrimaryEmail \in StoreUserNames
    /\ \A k \in DOMAIN googleGroups :
         LET g == googleGroups[k]
         IN  (/\ ~ignoreGroup(g.Email)
              /\ ~\E c \in Issued(run, {"CreateGroup"}) :
                    calls[c].name = g.Name /\ ~calls[c].ok)
             => g.Name \in StoreGroupNames

\* C3 (as stated): no CreateUser and no DeleteUser is ever issued for a user
\* name of the ignore list.
C3_IgnoredUsersUntouched ==
  \A k \in DOMAIN calls :
    calls[k].op \in {"CreateUser", "DeleteUser"}
      => calls[k].name \notin cfg.IgnoreUsers

\* C4 (as stated): no CreateGroup and no DeleteGroup is ever issued for the
\* display name of a Google group of the ignore list.
C4_IgnoredGroupsUntouched ==
  \A k \in DOMAIN calls :
    calls[k].op \in {"CreateGroup", "DeleteGroup"}
      => ~\E g \in Range(googleGroups) :
            g.Name = calls[k].name /\ ignoreGroup(g.Email)

\* the store user u is selected for deletion in a run: a tombstone has its
\* name, or a suspended Google user the loop does not skip has its name
Selected(u) ==
  \/ u.UserName \in Range(gcpDeletedUsers)
  \/ \E g \in Range(googleUsers) :
       /\ g.PrimaryEmail = u.UserName
       /\ g.Suspended
       /\ ~ignoreUser(g.PrimaryEmail)

\* C5 (as stated): a run that returns and in which no adapter call returns an
\* error issues exactly one DeleteUser for every store user selected for
\* deletion.
C5_ExactlyOneDeleteUser ==
  (ReturnedOk /\ Clean(run)) =>
    \A u \in Range(snap.users) :
      Selected(u) =>
        Cardinality({k \in Issued(run, {"DeleteUser"}) :
                       calls[k].id = u.UserId}) = 1

\* C6: a suspended Google user whose name had no store user when the run
\* started causes no CreateUser, no DeleteUser and no AddUserToGroup in that
\* run, in any group.
C6_SuspendedNeverMaterialized ==
  \A g \in Range(googleUsers) :
    (g.Suspended /\ g.PrimaryEmail \notin SnapUserNames) =>
      \A k \in Issued(run, {"CreateUser", "DeleteUser", "AddUserToGroup"}) :
        calls[k].name # g.PrimaryEmail

\* a run returned without error in which such a user is a Google member of a
\* group that received another member
C6_Witness ==
  /\ ReturnedOk
  /\ \E g \in Range(googleUsers), sg \in Range(googleGroups),
        tg \in Range(awsGroups) :
       /\ g.Suspended
       /\ g.PrimaryEmail \notin SnapUserNames
       /\ ~ignoreGroup(sg.Email)
       /\ g.PrimaryEmail \in googleMembers[sg.Email]
       /\ tg.DisplayName = sg.Name
       /\ \E k \in IssuedFor(run, tg.GroupId, {"AddUserToGroup"}) : calls[k].ok

\* the calls whose error makes SyncGroups return an error
SyncGroupsFatal == {"GetGroups", "GetGoogleGroups", "GetGoogleMembers",
                    "GetGroupMembers", "RemoveGroupMembership",
                    "AddUserToGroup", "DeleteGroup"}

\* C7: in every run the DeleteUser calls come after every other adapter call
\* of the run (so after every CreateGroup, AddUserToGroup,
\* RemoveGroupMembership and DeleteGroup, and outside SyncUsers and
\* SyncGroups), and a run in which SyncGroups returned an error issues no
\* DeleteUser.
\* (calls grows by one call at its end, so what holds of the last call
\* against the calls before it in every reachable state holds of every call.)
C7_DeleteUserLast ==
  LET k == Len(calls)
  IN  \A j \in 1..(k - 1) :
        calls[j].run = calls[k].run =>
          /\ calls[j].op = "DeleteUser" => calls[k].op = "DeleteUser"
          /\ (calls[j].op \in SyncGroupsFatal /\ ~calls[j].ok)
               => calls[k].op # "DeleteUser"

\* a first run stopped by an error of SyncGroups, then a run that created a
\* group, added a member, deleted a group and ended with a DeleteUser
C7_Witness ==
  /\ pc = "done"
  /\ ended = <<"error", "none">>
  /\ \E j \in Issued(1, SyncGroupsFatal) : ~calls[j].ok
  /\ \E c \in Issued(2, {"CreateGroup"}), a \in Issued(2, {"AddUserToGroup"}),
        g \in Issued(2, {"DeleteGroup"}), d \in Issued(2, {"DeleteUser"}) :
       /\ calls[c].ok /\ calls[a].ok /\ calls[g].ok /\ calls[d].ok
       /\ c < d /\ a < d /\ g < d

\* no two memberships of the sequence ms are of the same group and member
NoDuplicatePair(ms) ==
  \A x, y \in Range(ms) :
    (x.GroupId = y.GroupId /\ x.MemberId = y.MemberId)
      => x.MembershipId = y.MembershipId

\* C8: within the reconciliation of one group every RemoveGroupMembership
\* comes before every AddUserToGroup; no user about to be added holds a
\* membership in the group; and a store that held at most one membership per
\* group and member when the run started never holds two.
\* (Stated of the last call against the calls before it, as C7 is.)
C8_RemovalsBeforeAdditions ==
  /\ LET k == Len(calls)
     IN  \A j \in 1..(k - 1) :
           (/\ calls[j].run = calls[k].run
            /\ calls[j].gid = calls[k].gid
            /\ calls[j].op = "AddUserToGroup")
             => calls[k].op # "RemoveGroupMembership"
  /\ pc = "AddMembers" =>
       \A e \in DOMAIN memberList :
         ~\E m \in Range(awsMemberships) :
            /\ m.GroupId = awsGroup.GroupId
            /\ m.MemberId = MemberUserId(memberList[e].UserId)
  /\ NoDuplicatePair(snap.memberships) => NoDuplicatePair(awsMemberships)

\* the additions of a group are about to start, after a removal in the group
\* that left another membership in place
C8_Witness ==
  /\ pc = "AddMembers"
  /\ \E k \in IssuedFor(run, awsGroup.GroupId, {"RemoveGroupMembership"}) :
       calls[k].ok
  /\ StoreGroupMembers(awsGroup) # <<>>

\* the group being reconciled is reconciled: its listing is taken and the
\* loops over toDelete and memberList are running
MemberPhases == {"GetAwsMembers", "RemoveMemberships", "AddMembers"}

\* the store users that are Google members of the group being reconciled and
\* that the index by name resolves
DesiredIds ==
  LET name == awsGroup.DisplayName
  IN  IF name \notin DOMAIN googleGroupsIndex THEN {}
      ELSE {index[e].UserId :
              e \in googleMembers[googleGroupsIndex[name].Email]
                      \cap DOMAIN index}

\* the user ids that held a membership in the listing of the group
ListedIds ==
  {m.MemberId.Value : m \in {x \in Range(awsMembers) : x.MemberId.kind = "user"}}

\* what holds of the group being reconciled when its reconciliation has
\* returned without error
MembershipExact ==
  LET gid == awsGroup.GroupId
      adds == IssuedFor(run, gid, {"AddUserToGroup"})
      removes == IssuedFor(run, gid, {"RemoveGroupMembership"})
  IN  \* the members of the store group are the desired members
      /\ {m.MemberId : m \in Range(StoreGroupMembers(awsGroup))}
           = {MemberUserId(u) : u \in DesiredIds}
      \* a listed membership of a desired member is still there, was not
      \* removed, and its user was not added again
      /\ \A m \in Range(awsMembers) :
           (m.MemberId.kind = "user" /\ m.MemberId.Value \in DesiredIds) =>
             /\ m \in Range(awsMemberships)
             /\ \A k \in removes : calls[k].id # m.MembershipId
             /\ \A k \in adds : calls[k].id # m.MemberId.Value
      \* one AddUserToGroup per desired member without listed membership,
      \* and none for anybody else
      /\ \A u \in DesiredIds \ ListedIds :
           Cardinality({k \in adds : calls[k].id = u}) = 1
      /\ \A k \in adds : calls[k].id \in DesiredIds \ ListedIds

\* C9: when the reconciliation of a group returns without error, the members
\* of the store group are exactly the Google members the index resolves, no
\* membership of a desired member was removed or added again, and exactly one
\* AddUserToGroup was issued per desired member that had no membership.
C9_MembershipDiffExact ==
  [][(pc \in MemberPhases /\ pc' \notin MemberPhases /\ err' = "none")
       => MembershipExact']_vars

\* store group G holds a, Google group G holds a and b: the run returned
\* after no removal and one addition, of b
C9_Witness ==
  /\ ReturnedOk
  /\ toDelete = <<>>
  /\ awsGroup.DisplayName = "G"
  /\ ListedIds = {UserIdOf["a"]}
  /\ DesiredIds = {UserIdOf["a"], UserIdOf["b"]}
  /\ IssuedFor(run, awsGroup.GroupId, {"RemoveGroupMembership"}) = {}
  /\ \E k \in IssuedFor(run, awsGroup.GroupId, {"AddUserToGroup"}) :
       calls[k].name = "b" /\ calls[k].ok
  /\ Cardinality(IssuedFor(run, awsGroup.GroupId, {"AddUserToGroup"})) = 1

\* SyncUsers has returned without error in the current run
SyncUsersReturned ==
  /\ pc \notin {"GetUsers", "GetDeletedUsers", "GetGoogleUsers", "UsersLoop"}
  /\ \E k \in Issued(run, {"GetGoogleUsers"}) : calls[k].ok

\* C10: once SyncUsers has returned, exactly one CreateUser was issued for
\* every Google user that is active, not suspended, not ignored and had no
\* store user when the run started; if it succeeded, the user it returned is
\* in the index by name and, under the id the store assigned, in the index by
\* id, and an AddUserToGroup for that user carries that id.
C10_CreatedOnceAndIndexed ==
  SyncUsersReturned =>
    \A g \in Range(googleUsers) :
      (/\ ~g.Suspended
       /\ ~ignoreUser(g.PrimaryEmail)
       /\ g.PrimaryEmail \notin SnapUserNames) =>
        LET cs == {k \in Issued(run, {"CreateUser"}) :
                     calls[k].name = g.PrimaryEmail}
        IN  /\ Cardinality(cs) = 1
            /\ \A k \in cs :
                 calls[k].ok =>
                   /\ g.PrimaryEmail \in DOMAIN index
                   /\ index[g.PrimaryEmail] =
                        [UserId |-> calls[k].id, UserName |-> g.PrimaryEmail]
                   /\ calls[k].id \in DOMAIN indexByUserId
                   /\ indexByUserId[calls[k].id] = index[g.PrimaryEmail]
                   /\ \A a \in Issued(run, {"AddUserToGroup"}) :
                        calls[a].name = g.PrimaryEmail
                          => calls[a].id = calls[k].id

\* a user was created in the run and then added to a group under its new id
C10_Witness ==
  /\ ReturnedOk
  /\ \E k \in Issued(run, {"CreateUser"}), a \in Issued(run, {"AddUserToGroup"}) :
       /\ calls[k].ok
       /\ calls[a].ok
       /\ calls[a].name = calls[k].name
       /\ calls[a].id = calls[k].id
       /\ calls[k].name \notin SnapUserNames

\* the listings: every one of them is drained page by page
Listings == {"GetUsers", "GetDeletedUsers", "GetGoogleUsers", "GetGroups",
             "GetGoogleGroups", "GetGoogleMembers", "GetGroupMembers"}
\* the last adapter call issued
LastCall == calls[Len(calls)]
\* what a run builds from the listings: the indexes and the lists
working == <<userSync, awsGroupsList, groupsIndex, googleGroupsIndex,
             groupsToDelete, awsMembers, memberList, mToDelete>>

\* C11: a listing that fails is the last adapter call of its run (so no
\* mutation follows it), the step that receives the error enters nothing of
\* the listing into the indexes and lists of the run and leaves the store as
\* it is, and the run ends with the error.
C11_ListingFailuresFatal ==
  [][/\ (calls' # calls /\ calls'[Len(calls')].op \in Listings
           /\ ~calls'[Len(calls')].ok)
          => /\ err' = "error"
             /\ pc' = "Return"
             /\ UNCHANGED <<working, store>>
     /\ \A j \in DOMAIN calls :
          (calls[j].op \in Listings /\ ~calls[j].ok /\ calls[j].run = run')
            => /\ calls' = calls
               /\ UNCHANGED store
               /\ err' = "error"
               /\ pc' \in {"Return", "done"}
    ]_vars

\* a run that had issued a mutation ended on the error of the listing of the
\* memberships of a group, with a group and a user left to delete
C11_Witness ==
  /\ pc = "done"
  /\ err = "error"
  /\ LastCall.op = "GetGroupMembers"
  /\ ~LastCall.ok
  /\ LastCall.run = run
  /\ \E k \in Issued(run, Mutations) : calls[k].ok
  /\ toDelete # <<>>

\* the mutations whose error SyncGroups returns
Committed == {"RemoveGroupMembership", "AddUserToGroup", "DeleteGroup"}

\* C12: a RemoveGroupMembership, an AddUserToGroup or a DeleteGroup that
\* fails is followed by no mutation in its run (by no adapter call at all),
\* in its group or in any other, and the run ends with the error.
\* (Stated of the last call against the calls before it, as C7 is.)
C12_FailFast ==
  /\ LET k == Len(calls)
     IN  \A j \in 1..(k - 1) :
           (calls[j].op \in Committed /\ ~calls[j].ok)
             => calls[j].run # calls[k].run
  /\ (calls # <<>> /\ LastCall.op \in Committed /\ ~LastCall.ok
        /\ LastCall.run = run)
       => /\ err = "error"
          /\ pc \in {"Return", "done"}

\* a run ended on the error of a RemoveGroupMembership while another group
\* was left to reconcile and a user left to delete
C12_Witness ==
  /\ pc = "done"
  /\ err = "error"
  /\ LastCall.op = "RemoveGroupMembership"
  /\ ~LastCall.ok
  /\ LastCall.run = run
  /\ pending # {}
  /\ toDelete # <<>>

\* C13 (as stated): when a DeleteUser fails in a run, the run goes on, so
\* that once it has ended a DeleteUser was issued for every user of the list
\* RemoveUsers was given.
C13_DeleteUserFailureSkipsOneUser ==
  (pc = "done" /\ \E k \in Issued(run, {"DeleteUser"}) : ~calls[k].ok)
    => \A u \in Range(toDelete) :
         \E k \in Issued(run, {"DeleteUser"}) : calls[k].id = u.UserId

\* the positions of googleUsers whose user the loop creates in a run that
\* started with the store of snap
ToCreate ==
  {k \in DOMAIN googleUsers :
     /\ ~googleUsers[k].Suspended
     /\ ~ignoreUser(googleUsers[k].PrimaryEmail)
     /\ googleUsers[k].PrimaryEmail \notin SnapUserNames}

\* what holds of a CreateUser of the current run that failed
CreateUserIsolated ==
  \A k \in Issued(run, {"CreateUser"}) :
    ~calls[k].ok =>
      \* the user name is in neither index
      /\ calls[k].name \notin DOMAIN index
      /\ \A id \in DOMAIN indexByUserId :
           indexByUserId[id].UserName # calls[k].name
      \* no AddUserToGroup is issued for it, in any group
      /\ \A a \in Issued(run, {"AddUserToGroup"}) : calls[a].name # calls[k].name
      \* once SyncUsers has returned, it has returned no error and a
      \* CreateUser was issued for every Google user to create
      /\ SyncUsersReturned =>
           /\ \A p \in ToCreate :
                \E c \in Issued(run, {"CreateUser"}) :
                  calls[c].name = googleUsers[p].PrimaryEmail
           /\ \/ pc = "GetGroups" /\ err = "none"
              \/ Issued(run, {"GetGroups"}) # {}

\* C14: the step in which CreateUser fails sets no error, moves the loop over
\* googleUsers to the next user and leaves the indexes, toDelete and the
\* store as they are; the user name of a failed CreateUser is in neither
\* index and no AddUserToGroup is issued for it in the run; and SyncUsers
\* goes through the remaining Google users and returns no error, so that
\* SyncGroups starts.
C14_CreateUserFailureIsolated ==
  [][/\ (calls' # calls /\ calls'[Len(calls')].op = "CreateUser"
           /\ ~calls'[Len(calls')].ok)
          => /\ err' = "none"
             /\ i' = i + 1
             /\ pc' = (IF i' > Len(googleUsers) THEN "GetGroups"
                       ELSE "UsersLoop")
             /\ UNCHANGED <<userSync, store>>
     /\ CreateUserIsolated'
    ]_vars

\* CreateUser failed for a, a Google member of G; b, after a in the listing,
\* was created and added to G, and the run returned without error
C14_Witness ==
  /\ ReturnedOk
  /\ \E k, c \in Issued(run, {"CreateUser"}) :
       /\ ~calls[k].ok
       /\ calls[c].ok
       /\ k < c
       /\ \E sg \in Range(googleGroups), tg \in Range(awsGroups) :
            /\ tg.DisplayName = sg.Name
            /\ ~ignoreGroup(sg.Email)
            /\ calls[k].name \in googleMembers[sg.Email]
            /\ \E a \in IssuedFor(run, tg.GroupId, {"AddUserToGroup"}) :
                 calls[a].name = calls[c].name /\ calls[a].ok

\* the loop over googleGroups has ended in the current run
GroupsLoopEnded ==
  /\ pc \notin {"GetUsers", "GetDeletedUsers", "GetGoogleUsers", "UsersLoop",
                "GetGroups", "GetGoogleGroups", "GroupsLoop"}
  /\ \E k \in Issued(run, {"GetGoogleGroups"}) : calls[k].ok

\* the identifiers the store has given to a group of that display name
GroupIdsOf(name) ==
  {g.GroupId : g \in {x \in Range(awsGroups) \cup Range(snap.groups) :
                        x.DisplayName = name}}

\* what holds of a CreateGroup of the current run that failed
CreateGroupIsolated ==
  \A k \in Issued(run, {"CreateGroup"}) :
    ~calls[k].ok =>
      \* the group is not in the working index and not in the deletion set
      /\ calls[k].name \notin DOMAIN groupsIndex
      /\ \A g \in Range(groupsToDelete) : g.DisplayName # calls[k].name
      \* no listing of its members and no DeleteGroup
      /\ \A c \in Issued(run, {"GetGoogleMembers", "GetGroupMembers",
                               "DeleteGroup"}) :
           calls[c].name # calls[k].name
      \* no AddUserToGroup and no RemoveGroupMembership
      /\ \A c \in Issued(run, {"AddUserToGroup", "RemoveGroupMembership"}) :
           calls[c].gid \notin GroupIdsOf(calls[k].name)
      \* the loop has gone through the remaining Google groups
      /\ GroupsLoopEnded =>
           \A p \in DOMAIN googleGroups :
             (/\ ~ignoreGroup(googleGroups[p].Email)
              /\ \A g \in Range(awsGroupsList) :
                   g.DisplayName # googleGroups[p].Name)
               => \E c \in Issued(run, {"CreateGroup"}) :
                    calls[c].name = googleGroups[p].Name

\* C15: the step in which CreateGroup fails sets no error, moves the loop
\* over googleGroups to the next group and leaves the working index and the
\* store as they are; for the group of a failed CreateGroup the run lists no
\* members, issues no AddUserToGroup, no RemoveGroupMembership and no
\* DeleteGroup; and the loop goes through the remaining Google groups.
C15_CreateGroupFailureIsolated ==
  [][/\ (calls' # calls /\ calls'[Len(calls')].op = "CreateGroup"
           /\ ~calls'[Len(calls')].ok)
          => /\ err' = "none"
             /\ i' = i + 1
             /\ pc' = (IF i' > Len(googleGroups) THEN "MarkGroups"
                       ELSE "GroupsLoop")
             /\ UNCHANGED <<groupsIndex, groupsToDelete, store>>
     /\ CreateGroupIsolated'
    ]_vars

\* CreateGroup failed for one Google group; another, after it in the listing,
\* was created and received a member, and the run returned without error
C15_Witness ==
  /\ ReturnedOk
  /\ \E k, c \in Issued(run, {"CreateGroup"}) :
       /\ ~calls[k].ok
       /\ calls[c].ok
       /\ k < c
       /\ \E a \in IssuedFor(run, calls[c].id, {"AddUserToGroup"}) : calls[a].ok

\* the calls of the reconciliation of a group
Reconciliation == {"GetGoogleMembers", "GetGroupMembers",
                   "RemoveGroupMembership", "AddUserToGroup"}

\* the groups listed at the start of SyncGroups whose display name has no
\* entry in googleGroupsIndex, once the loop over googleGroups has ended
DeletionSet ==
  {g \in Range(awsGroupsList) : g.DisplayName \notin DOMAIN googleGroupsIndex}

\* SyncGroups has returned without error in the current run
SyncGroupsReturned ==
  /\ GroupsLoopEnded
  /\ pc \in {"RemoveUsers", "Return", "done"}
  /\ \A k \in Issued(run, SyncGroupsFatal) : calls[k].ok

\* C16: in the call log no call of a reconciliation, and no CreateGroup,
\* follows a DeleteGroup of the same run; while DeleteGroup calls are issued
\* no group is left to reconcile; a DeleteGroup is issued only for a group of
\* the deletion set, and once SyncGroups has returned without error exactly
\* one was issued for each of them; and no call of a reconciliation is
\* issued for a group of the deletion set.
\* (Stated of the last call against the calls before it, as C7 is.)
C16_DeleteGroupLast ==
  /\ LET k == Len(calls)
     IN  \A j \in 1..(k - 1) :
           (calls[j].run = calls[k].run /\ calls[j].op = "DeleteGroup")
             => calls[k].op \notin Reconciliation \cup {"CreateGroup"}
  /\ pc = "DeleteGroups" => pending = {}
  /\ GroupsLoopEnded =>
       /\ \A k \in Issued(run, {"DeleteGroup"}) :
            \E g \in DeletionSet :
              g.GroupId = calls[k].id /\ g.DisplayName = calls[k].name
       /\ \A k \in Issued(run, Reconciliation) :
            \A g \in DeletionSet : calls[k].gid # g.GroupId
       /\ pc # "MarkGroups" =>
            \A g \in DeletionSet : g.DisplayName \notin DOMAIN groupsIndex
       /\ SyncGroupsReturned =>
            \A g \in DeletionSet :
              Cardinality({k \in Issued(run, {"DeleteGroup"}) :
                             calls[k].id = g.GroupId}) = 1

\* the run returned without error after it added a member to one group and
\* then deleted another group, which held a membership
C16_Witness ==
  /\ ReturnedOk
  /\ \E a \in Issued(run, {"AddUserToGroup"}),
        d \in Issued(run, {"DeleteGroup"}) :
       /\ calls[a].ok
       /\ calls[d].ok
       /\ a < d
       /\ calls[a].gid # calls[d].gid
       /\ \E m \in Range(snap.memberships) : m.GroupId = calls[d].gid

\* the membership m of the listing cannot be resolved to a user of the index
\* by id: its member identifier is no user id, or the index has no such id
Anomalous(m) ==
  \/ m.MemberId.kind # "user"
  \/ m.MemberId.Value \notin DOMAIN indexByUserId

\* C17 (as stated): a membership of the listing whose member cannot be
\* resolved never makes the run crash, and once the loop over the listing has
\* ended it is marked for removal: it is in toDelete, or a
\* RemoveGroupMembership was issued for it.
C17_AnomaliesRemovedNotCrash ==
  \A m \in Range(awsMembers) :
    Anomalous(m) =>
      /\ err # "panic"
      /\ (pc \in {"RemoveMemberships", "AddMembers"}
            /\ m.GroupId = awsGroup.GroupId)
           => \/ m \in Range(mToDelete)
              \/ \E k \in IssuedFor(run, m.GroupId, {"RemoveGroupMembership"}) :
                   calls[k].id = m.MembershipId

\* ------------------------------------------ SyncMembershipsForGroup, called
\* SyncMembershipsForGroup called on its own, for the store group G: awsGroup
\* is G, usersSyncResult holds the two indexes of the store users and an
\* empty toDelete, and googleGroup is the entry of googleGroupsIndex under
\* the name G, nil when there is none.
MemberCallConfigs ==
  [tu : {{"a"}, UserNames}, tomb : {{}},
   st : {[n \in UserNames |-> "active"]}, ignU : {{}},
   tg : {{"G"}}, sg : {{}, {"G"}}, ignG : {{}},
   smem : {[n \in GroupNames |-> IF n = "G" THEN g ELSE {}] :
             g \in SUBSET UserNames},
   tm : SUBSET {"a", "b", "ghost"}]

InitMembers ==
  \E c \in MemberCallConfigs :
    /\ awsUsers = InitUsers(c)
    /\ awsGroups = InitGroups(c)
    /\ awsMemberships = InitMemberships(c)
    /\ nextId = 20
    /\ gcpDeletedUsers = <<>>
    /\ googleUsers = InitGoogleUsers(c)
    /\ googleGroups = InitGoogleGroups(c)
    /\ googleMembers = [e \in {GroupEmail[n] : n \in GroupNames} |->
                          c.smem[CHOOSE n \in GroupNames : GroupEmail[n] = e]]
    /\ cfg = [IgnoreUsers |-> {}, IgnoreGroups |-> {}]
    /\ pc = "Members"
    /\ run = 1
    /\ err = "none"
    /\ index = IndexUsers(InitUsers(c), EmptyMap)
    /\ indexByUserId = IndexUsersById(InitUsers(c), EmptyMap)
    /\ toDelete = <<>>
    /\ i = 0
    /\ awsGroupsList = InitGroups(c)
    /\ groupsIndex = IndexGroups(InitGroups(c), EmptyMap)
    /\ googleGroupsIndex =
         [n \in c.sg |-> [Name |-> n, Email |-> GroupEmail[n]]]
    /\ groupsToDelete = <<>>
    /\ pending = {"G"}
    /\ awsGroup = NoGroup
    /\ awsMembers = <<>>
    /\ memberList = EmptyMap
    /\ mToDelete = <<>>
    /\ calls = <<>>
    /\ fails = 0
    /\ snap = [users |-> InitUsers(c), groups |-> InitGroups(c),
               memberships |-> InitMemberships(c)]
    /\ ended = <<>>

NextMembers ==
  \/ GetGoogleMembers
  \/ GetAwsMembers
  \/ RemoveMembership
  \/ AddMember
  \/ Return

SpecMembers == InitMembers /\ [][NextMembers]_vars

\* SyncMembershipsForGroup was called with a nil googleGroup
NilSourceGroup ==
  /\ awsGroup # NoGroup
  /\ awsGroup.DisplayName \notin DOMAIN googleGroupsIndex

\* C18 (as stated): a call with a nil source group does not crash, and when
\* it has returned and no adapter call failed it has returned no error, has
\* issued no AddUserToGroup and has left no membership in the group.
C18_NilSourceGroupTolerated ==
  NilSourceGroup =>
    /\ err # "panic"
    /\ (pc = "done" /\ Clean(run)) =>
         /\ err = "none"
         /\ IssuedFor(run, awsGroup.GroupId, {"AddUserToGroup"}) = {}
         /\ StoreGroupMembers(awsGroup) = <<>>

\* the Google members of the group of that display name, as the run saw them
SourceMembersOf(name) ==
  IF name \in DOMAIN googleGroupsIndex
  THEN googleMembers[googleGroupsIndex[name].Email] ELSE {}

\* the memberships the user of identifier uid held in the group of
\* identifier gid when the run started
HeldAtStart(uid, gid) ==
  {m \in Range(snap.memberships) :
     m.GroupId = gid /\ m.MemberId = MemberUserId(uid)}

\* the store users the run puts in toDelete: those a tombstone names and
\* those a suspended Google user, not ignored, names
PendingDeletion == {u \in Range(snap.users) : Selected(u)}

\* C19: for a store user the run puts in toDelete and a group of which the
\* user is a Google member: no RemoveGroupMembership is issued for a
\* membership of the user in the group; when the reconciliation of the group
\* has ended without error and the user held no membership, exactly one
\* AddUserToGroup was issued for the user in the group, and none when the
\* user held one; and a run that returns without error has issued DeleteUser
\* for the user.
C19_PendingDeletionStillMember ==
  \A u \in PendingDeletion :
    /\ \A g \in Issued(run, {"GetGroupMembers"}) :
         (calls[g].ok /\ u.UserName \in SourceMembersOf(calls[g].name)) =>
           LET gid == calls[g].gid
               held == HeldAtStart(u.UserId, gid)
               adds == {a \in IssuedFor(run, gid, {"AddUserToGroup"}) :
                          calls[a].id = u.UserId}
           IN  /\ \A k \in IssuedFor(run, gid, {"RemoveGroupMembership"}) :
                    \A m \in held : calls[k].id # m.MembershipId
               /\ held # {} => adds = {}
               /\ (/\ held = {}
                   /\ err = "none"
                   /\ \/ pc \notin MemberPhases
                      \/ awsGroup.GroupId # gid) => Cardinality(adds) = 1
    /\ ReturnedOk =>
         \E d \in Issued(run, {"DeleteUser"}) :
           calls[d].id = u.UserId /\ calls[d].ok

\* a run returned without error in which a tombstoned user was added to a
\* group and was then deleted
C19_Witness ==
  /\ ReturnedOk
  /\ \E d \in Issued(run, {"DeleteUser"}), a \in Issued(run, {"AddUserToGroup"}) :
       /\ calls[d].ok
       /\ calls[a].ok
       /\ calls[a].id = calls[d].id
       /\ a < d
       /\ calls[d].name \in Range(gcpDeletedUsers)

\* ------------------------------------------------------- SyncGroups, called
\* SyncGroups called on its own, with the usersSyncResult of a store that
\* holds user a.  Two Google groups may have the same name: the second
\* Google group named G has the address DupEmail.
DupEmail == "g2@x"

\* the Google groups a listing may hold, in the order of the listing
GoogleGroupPool ==
  << [Name |-> "G", Email |-> GroupEmail["G"]],
     [Name |-> "G", Email |-> DupEmail],
     [Name |-> "H", Email |-> GroupEmail["H"]] >>

GroupCallConfigs ==
  [tg : SUBSET GroupNames,
   sg : SUBSET Range(GoogleGroupPool),
   ignG : {{}, {GroupEmail["G"]}, {DupEmail}}]

\* the store of configuration c: user a, the groups of c.tg, and one
\* membership of a in each of them
GroupCallStore(c) ==
  [tu |-> {"a"}, tg |-> c.tg, tm |-> {"a"}]

InitSyncGroups ==
  \E c \in GroupCallConfigs :
    LET st == GroupCallStore(c)
    IN  /\ awsUsers = InitUsers(st)
        /\ awsGroups = InitGroups(st)
        /\ awsMemberships = InitMemberships(st)
        /\ nextId = 20
        /\ gcpDeletedUsers = <<>>
        /\ googleUsers = <<[PrimaryEmail |-> "a", Suspended |-> FALSE]>>
        /\ googleGroups = SeqFilter(GoogleGroupPool, c.sg)
        /\ googleMembers =
             [e \in {g.Email : g \in Range(GoogleGroupPool)} |->
                IF e = DupEmail THEN {} ELSE {"a"}]
        /\ cfg = [IgnoreUsers |-> {}, IgnoreGroups |-> c.ignG]
        /\ pc = "GetGroups"
        /\ run = 1
        /\ err = "none"
        /\ index = IndexUsers(InitUsers(st), EmptyMap)
        /\ indexByUserId = IndexUsersById(InitUsers(st), EmptyMap)
        /\ toDelete = <<>>
        /\ i = 0
        /\ awsGroupsList = <<>>
        /\ groupsIndex = EmptyMap
        /\ googleGroupsIndex = EmptyMap
        /\ groupsToDelete = <<>>
        /\ pending = {}
        /\ awsGroup = NoGroup
        /\ awsMembers = <<>>
        /\ memberList = EmptyMap
        /\ mToDelete = <<>>
        /\ calls = <<>>
        /\ fails = 0
        /\ snap = [users |-> InitUsers(st), groups |-> InitGroups(st),
                   memberships |-> InitMemberships(st)]
        /\ ended = <<>>

NextSyncGroups ==
  \/ GetAwsGroups
  \/ GetGoogleGroups
  \/ SyncGroup
  \/ MarkGroups
  \/ GetGoogleMembers
  \/ GetAwsMembers
  \/ RemoveMembership
  \/ AddMember
  \/ DeleteGroup
  \/ Return

SpecSyncGroups == InitSyncGroups /\ [][NextSyncGroups]_vars

\* the second loop over awsGroups has ended: the loop over groupsIndex is
\* about to start, runs, or has ended
MembershipLoop == {"Members", "GetAwsMembers", "RemoveMemberships",
                   "AddMembers", "DeleteGroups"}

\* C20: from the moment the loop over groupsIndex starts, every group of
\* groupsIndex, listed and matched or created, stands under its display name
\* and googleGroupsIndex has a Google group of that name; so the googleGroup
\* given to SyncMembershipsForGroup is never nil and the run never stops on
\* the dereference of its first statement.  (The stores of this
\* specification hold memberships of user ids only: no other panic exists.)
C20_SourceGroupNeverNil ==
  /\ pc \in MembershipLoop =>
       \A n \in DOMAIN groupsIndex :
         /\ groupsIndex[n].DisplayName = n
         /\ n \in DOMAIN googleGroupsIndex
         /\ googleGroupsIndex[n].Name = n
         /\ ~ignoreGroup(googleGroupsIndex[n].Email)
  /\ err # "panic"

\* the loop over groupsIndex is about to start on a group created in the
\* run, after a listing with two Google groups of one name, one of them
\* ignored, and with a store group selected for deletion
C20_Witness ==
  /\ pc = "Members"
  /\ \E x, y \in Range(googleGroups) :
       /\ x.Name = y.Name
       /\ x.Email # y.Email
       /\ ignoreGroup(x.Email)
  /\ groupsToDelete # <<>>
  /\ \E n \in pending : groupsIndex[n] \notin Range(awsGroupsList)

\* the user names the source knows: those of the tombstones and those of the
\* active listing
SourceUserNames ==
  Range(gcpDeletedUsers) \cup {g.PrimaryEmail : g \in Range(googleUsers)}
\* the names of the Google groups of the listing
SourceGroupNames == {g.Name : g \in Range(googleGroups)}

\* C21: every DeleteUser is issued for a user the store held when the run
\* started and whose name is that of a tombstone or of a suspended Google
\* user of the active listing; a store user whose name the source does not
\* know at all stays in the store; whereas, once SyncGroups has returned
\* without error, a DeleteGroup was issued for every listed store group whose
\* name no Google group has, and the store no longer holds it.
C21_UsersAbsentFromSourceKept ==
  /\ \A k \in Issued(run, {"DeleteUser"}) :
       /\ \E u \in Range(snap.users) :
            u.UserId = calls[k].id /\ u.UserName = calls[k].name
       /\ \/ calls[k].name \in Range(gcpDeletedUsers)
          \/ \E g \in Range(googleUsers) :
               g.PrimaryEmail = calls[k].name /\ g.Suspended
  /\ \A u \in Range(snap.users) :
       u.UserName \notin SourceUserNames => u \in Range(awsUsers)
  /\ SyncGroupsReturned =>
       \A g \in Range(awsGroupsList) :
         g.DisplayName \notin SourceGroupNames =>
           /\ \E k \in Issued(run, {"DeleteGroup"}) :
                calls[k].id = g.GroupId /\ calls[k].ok
           /\ g \notin Range(awsGroups)

\* a run returned without error after it deleted a tombstoned user, while the
\* store user whose name the source does not know is still in the store
C21_Witness ==
  /\ ReturnedOk
  /\ \E d \in Issued(run, {"DeleteUser"}) : calls[d].ok
  /\ \E u \in Range(snap.users) :
       u.UserName \notin SourceUserNames /\ u \in Range(awsUsers)

\* ------------------------- SyncMembershipsForGroup, called on duplicates
\* SyncMembershipsForGroup called on its own for the store group G, which may
\* hold several memberships of one user: those of InitialMemberships, listed
\* first, and those of MoreMemberships after them.
MoreMemberships ==
  << [MembershipId |-> 17, g |-> "G", m |-> "a"],
     [MembershipId |-> 18, g |-> "G", m |-> "a"],
     [MembershipId |-> 19, g |-> "G", m |-> "b"] >>

DuplicateConfigs ==
  [tu : {UserNames}, tg : {{"G"}},
   st : {[n \in UserNames |-> "active"]},
   smem : {[n \in GroupNames |-> IF n = "G" THEN g ELSE {}] :
             g \in SUBSET UserNames},
   tm : SUBSET {"a", "b", "ghost"},
   more : SUBSET {17, 18, 19}]

\* the memberships of configuration c, in the order of the listing
DuplicateMemberships(c) ==
  LET ms == SeqFilter(MoreMemberships,
                      {x \in Range(MoreMemberships) : x.MembershipId \in c.more})
  IN  InitMemberships(c) \o
        [k \in DOMAIN ms |->
           [MembershipId |-> ms[k].MembershipId,
            GroupId |-> GroupIdOf[ms[k].g],
            MemberId |-> MemberIdOf(ms[k].m)]]

InitDuplicates ==
  \E c \in DuplicateConfigs :
    /\ awsUsers = InitUsers(c)
    /\ awsGroups = InitGroups(c)
    /\ awsMemberships = DuplicateMemberships(c)
    /\ nextId = 20
    /\ gcpDeletedUsers = <<>>
    /\ googleUsers = InitGoogleUsers(c)
    /\ googleGroups = <<[Name |-> "G", Email |-> GroupEmail["G"]]>>
    /\ googleMembers = [e \in {GroupEmail[n] : n \in GroupNames} |->
                          c.smem[CHOOSE n \in GroupNames : GroupEmail[n] = e]]
    /\ cfg = [IgnoreUsers |-> {}, IgnoreGroups |-> {}]
    /\ pc = "Members"
    /\ run = 1
    /\ err = "none"
    /\ index = IndexUsers(InitUsers(c), EmptyMap)
    /\ indexByUserId = IndexUsersById(InitUsers(c), EmptyMap)
    /\ toDelete = <<>>
    /\ i = 0
    /\ awsGroupsList = InitGroups(c)
    /\ groupsIndex = IndexGroups(InitGroups(c), EmptyMap)
    /\ googleGroupsIndex =
         [n \in {"G"} |-> [Name |-> n, Email |-> GroupEmail[n]]]
    /\ groupsToDelete = <<>>
    /\ pending = {"G"}
    /\ awsGroup = NoGroup
    /\ awsMembers = <<>>
    /\ memberList = EmptyMap
    /\ mToDelete = <<>>
    /\ calls = <<>>
    /\ fails = 0
    /\ snap = [users |-> InitUsers(c), groups |-> InitGroups(c),
               memberships |-> DuplicateMemberships(c)]
    /\ ended = <<>>

SpecDuplicates == InitDuplicates /\ [][NextMembers]_vars

\* the positions in the listing of the memberships of the user of that id
ListedAt(uid) ==
  {p \in DOMAIN awsMembers : awsMembers[p].MemberId = MemberUserId(uid)}

\* the user ids of which the listing holds several memberships
ListedTwice == {u \in ListedIds : Cardinality(ListedAt(u)) > 1}

\* the memberships of the user of that id the store holds in the group
\* being reconciled
HeldNow(uid) ==
  {m \in Range(StoreGroupMembers(awsGroup)) : m.MemberId = MemberUserId(uid)}

\* C22: when the call has returned without error, for every user of whom the
\* listing of the group held several memberships: if the user is a desired
\* member, the store holds the first listed of them and no other, and a
\* RemoveGroupMembership was issued for each of the others and not for the
\* first; if not, the store holds none and one was issued for each; and no
\* AddUserToGroup was issued for the user.
C22_DuplicatesReduced ==
  (pc = "done" /\ err = "none") =>
    \A u \in ListedTwice :
      LET first == awsMembers[CHOOSE p \in ListedAt(u) :
                                \A q \in ListedAt(u) : p <= q]
          kept == IF u \in DesiredIds THEN {first} ELSE {}
          removed == {calls[k].id :
                        k \in IssuedFor(run, awsGroup.GroupId,
                                        {"RemoveGroupMembership"})}
      IN  /\ HeldNow(u) = kept
          /\ Cardinality(HeldNow(u)) <= 1
          /\ \A p \in ListedAt(u) :
               awsMembers[p].MembershipId \in removed
                 <=> awsMembers[p] \notin kept
          /\ \A k \in IssuedFor(run, awsGroup.GroupId, {"AddUserToGroup"}) :
               calls[k].id # u

\* the call has returned without error on a group that held three
\* memberships of a desired member and two of a user who is no Google member
C22_Witness ==
  /\ pc = "done"
  /\ err = "none"
  /\ \E u \in ListedTwice : u \in DesiredIds /\ Cardinality(ListedAt(u)) = 3
  /\ \E u \in ListedTwice : u \notin DesiredIds
  /\ awsMembers # StoreGroupMembers(awsGroup)
====
